---- MODULE Spec2Model ----
(***************************************************************************)
(* Model of radish's command line entry point, src/radish/main.py:         *)
(* setup_config and main.  One run of main is followed statement by        *)
(* statement; the collaborators main calls (FeatureParser, Loader,         *)
(* Matcher, Runner, the file system, the clock) are the environment.       *)
(***************************************************************************)
EXTENDS Integers, Sequences, FiniteSets, TLC

VARIABLES
    arguments,        \* the dict docopt returned (main.py:88)
    marker_given,     \* whether -m/--marker was on the command line
    config,           \* world.config, attribute name -> value
    config_at_setup,  \* world.config as setup_config left it
    setups,           \* how many times setup_config has run
    pc,               \* the statement of main that runs next
    given_idx,        \* position of the loop of line 94 in config.features
    feature_files,    \* main.py:93
    features,         \* main.py:104
    abs_scenario_id,  \* main.py:105
    featureid,        \* the enumerate index of line 106
    amount_of_scenarios, \* main.py:129
    scenario_idx,     \* position of the loop of line 132
    calls,            \* every call main made to a collaborator, in order
    started,          \* the arguments of every Runner.start call, in order
    outcome           \* how main ended: still running, returned, raised

vars == <<arguments, marker_given, config, config_at_setup, setups, pc,
          given_idx, feature_files, features, abs_scenario_id, featureid,
          amount_of_scenarios, scenario_idx, calls, started, outcome>>

(***************************************************************************)
(* Bounds of the model.                                                    *)
(***************************************************************************)
MaxArgs == 2        \* path arguments on the command line
MaxScen == 2        \* scenarios one feature file may hold
MaxFilter == 2      \* comma separated tokens of --scenarios

(***************************************************************************)
(* Python values whose type varies at run time.                            *)
(***************************************************************************)
PyNone == [type |-> "NoneType", str |-> "", int |-> 0, tokens |-> <<>>, ints |-> <<>>]
PyStr(s) == [type |-> "str", str |-> s, int |-> 0, tokens |-> <<>>, ints |-> <<>>]
PyIntVal(i) == [type |-> "int", str |-> "", int |-> i, tokens |-> <<>>, ints |-> <<>>]
\* a string kept as its pieces between commas: "3,1" is <<"3", "1">> and the
\* empty string is <<"">>
PyCsv(toks) == [type |-> "str", str |-> "", int |-> 0, tokens |-> toks, ints |-> <<>>]
PyList(is) == [type |-> "list", str |-> "", int |-> 0, tokens |-> <<>>, ints |-> is]

SeqsUpTo(S, n) == UNION {[1..m -> S] : m \in 0..n}
Range(f) == {f[x] : x \in DOMAIN f}

RECURSIVE SumLen(_)
SumLen(fs) == IF fs = <<>> THEN 0 ELSE Len(Head(fs).scenarios) + SumLen(Tail(fs))

(***************************************************************************)
(* The file system main looks at: os.path.exists, os.path.isdir and the    *)
(* walk behind utils.recursive_glob.                                       *)
(***************************************************************************)
Paths == {"features", "features/a.feature", "notes.txt", "empty", "missing.feature"}

PathExists(p) == p \in {"features", "features/a.feature", "features/README",
                        "features/sub/b.feature", "notes.txt", "empty"}

IsDir(p) == p \in {"features", "empty"}

\* every file below a directory, in the order the walk yields them
Walk(dir) ==
    CASE dir = "features" -> <<"features/a.feature", "features/README",
                               "features/sub/b.feature">>
      [] OTHER -> <<>>

\* fnmatch of a file's name against "*.feature"
MatchesFeaturePattern(file) ==
    file \in {"features/a.feature", "features/sub/b.feature", "missing.feature"}

RecursiveGlob(dir) == SelectSeq(Walk(dir), MatchesFeaturePattern)

(***************************************************************************)
(* The comma separated pieces --scenarios may hold, and Python's int().    *)
(***************************************************************************)
Tokens == {"", "x", "-1", "0", "1", "2", "3"}

IsIntLiteral(tok) == tok \in {"-1", "0", "1", "2", "3"}

IntOf(tok) ==
    CASE tok = "-1" -> 0 - 1
      [] tok = "0" -> 0
      [] tok = "1" -> 1
      [] tok = "2" -> 2
      [] tok = "3" -> 3

\* every string counts as a choice of scenarios, the empty one too
Truthy_AnyString(v) == v.type = "str"

\* bool() of the value of --scenarios: None and the empty string are false
Truthy(v) == v.type = "str" /\ v.tokens # <<"">>

(***************************************************************************)
(* docopt's result for the usage text of main (main.py:43-83).             *)
(***************************************************************************)
DefaultMarker == "time.time()"
ExplicitMarkers == {"time.time()", "run-42"}
Times == {1700000000, 1700000001}

Flags == {"<features>", "--basedir", "--early-exit", "--debug-steps",
          "--debug-after-failure", "--inspect-after-failure", "--bdd-xml",
          "--no-ansi", "--no-line-jump", "--write-steps-once",
          "--with-traceback", "--marker", "--profile", "--dry-run",
          "--scenarios", "--shuffle", "--help", "--version"}

Docopt(paths, marker, scenarios) ==
    [k \in Flags |->
        CASE k = "<features>" -> paths
          [] k = "--basedir" -> PyStr("$PWD/radish")
          [] k = "--marker" -> PyStr(marker)
          [] k = "--profile" -> PyNone
          [] k = "--scenarios" -> scenarios
          [] OTHER -> FALSE]

\* keys that the usage text of main does not know
UnknownFlags == {"--bogus", "-x", "<extra>"}

PathLists(n) == SeqsUpTo(Paths, n) \ {<<>>}
\* None when -s is absent, else the string given, of up to n pieces
Filters(tokens, n) == {PyNone} \cup {PyCsv(t) : t \in SeqsUpTo(tokens, n) \ {<<>>}}

(***************************************************************************)
(* setup_config (main.py:30-37).                                           *)
(***************************************************************************)
\* key.replace("--", "").replace("-", "_").replace("<", "").replace(">", "")
ConfigKey(key) ==
    CASE key = "<features>" -> "features"
      [] key = "--basedir" -> "basedir"
      [] key = "--early-exit" -> "early_exit"
      [] key = "--debug-steps" -> "debug_steps"
      [] key = "--debug-after-failure" -> "debug_after_failure"
      [] key = "--inspect-after-failure" -> "inspect_after_failure"
      [] key = "--bdd-xml" -> "bdd_xml"
      [] key = "--no-ansi" -> "no_ansi"
      [] key = "--no-line-jump" -> "no_line_jump"
      [] key = "--write-steps-once" -> "write_steps_once"
      [] key = "--with-traceback" -> "with_traceback"
      [] key = "--marker" -> "marker"
      [] key = "--profile" -> "profile"
      [] key = "--dry-run" -> "dry_run"
      [] key = "--scenarios" -> "scenarios"
      [] key = "--shuffle" -> "shuffle"
      [] key = "--help" -> "help"
      [] key = "--version" -> "version"
      [] key = "--bogus" -> "bogus"
      [] key = "-x" -> "_x"
      [] key = "<extra>" -> "extra"

\* only the flags of the usage text are kept
setup_config_KnownOnly(args) ==
    [ck \in {ConfigKey(k) : k \in DOMAIN args \cap Flags} |->
        args[CHOOSE k \in DOMAIN args : ConfigKey(k) = ck]]

setup_config(args) ==
    [ck \in {ConfigKey(k) : k \in DOMAIN args} |->
        args[CHOOSE k \in DOMAIN args : ConfigKey(k) = ck]]

NoConfig == [unset |-> TRUE]

(***************************************************************************)
(* How main ends, and the record of a call to a collaborator.              *)
(***************************************************************************)
Running == [kind |-> "running", exc |-> "", path |-> "", s |-> 0, amount |-> 0, value |-> 0]
Returned(v) == [kind |-> "return", exc |-> "", path |-> "", s |-> 0, amount |-> 0, value |-> v]
Raised(e, p, s, n) == [kind |-> "raise", exc |-> e, path |-> p, s |-> s, amount |-> n, value |-> 0]

Call(op, p, fid, sid) ==
    [op |-> op, path |-> p, featureid |-> fid, abs_scenario_id |-> sid, result |-> 0]
TimeCall(t) == [Call("time", "", 0, 0) EXCEPT !.result = t]
Called(op) == {i \in DOMAIN calls : calls[i].op = op}

(***************************************************************************)
(* The initial states: docopt has returned, nothing else has run.          *)
(***************************************************************************)
NothingRunYet ==
    /\ config = NoConfig
    /\ config_at_setup = NoConfig
    /\ setups = 0
    /\ pc = "setup_config"
    /\ given_idx = 0
    /\ feature_files = <<>>
    /\ features = <<>>
    /\ abs_scenario_id = 0
    /\ featureid = 0
    /\ amount_of_scenarios = 0
    /\ scenario_idx = 0
    /\ calls = <<>>
    /\ started = <<>>
    /\ outcome = Running

InitWith(pathlists, filters, given) ==
    /\ marker_given \in given
    /\ \E paths \in pathlists, scenarios \in filters,
          marker \in IF marker_given THEN ExplicitMarkers ELSE {DefaultMarker} :
            arguments = Docopt(paths, marker, scenarios)
    /\ NothingRunYet

\* every command line of up to MaxArgs paths, without -m; -s absent or one
\* piece, malformed or the first scenario
Init == InitWith(PathLists(MaxArgs), Filters({"x", "1"}, 1), {FALSE})

\* one path on the command line, with or without -m, and every -s of up to
\* MaxFilter pieces
InitScenarios == InitWith(PathLists(1), Filters(Tokens, MaxFilter), BOOLEAN)

\* setup_config handed a mapping that holds, beside the flags of the usage
\* text, any of the unknown ones; one path, without -m
InitUnknownFlags ==
    /\ marker_given = FALSE
    /\ \E paths \in PathLists(1), scenarios \in Filters({"x", "1"}, 1),
          unknown \in SUBSET UnknownFlags :
            arguments = [k \in Flags \cup unknown |->
                           IF k \in Flags
                           THEN Docopt(paths, DefaultMarker, scenarios)[k]
                           ELSE TRUE]
    /\ NothingRunYet

(***************************************************************************)
(* The order of the statements of main (main.py:88-137).                   *)
(***************************************************************************)
\* the steps are matched before the user's code is loaded
StatementAfter_MatchBeforeLoad(stmt) ==
    CASE stmt = "setup_config" -> "discover"
      [] stmt = "discover" -> "parse"
      [] stmt = "parse" -> "merge_steps"
      [] stmt = "merge_steps" -> "load_all"
      [] stmt = "load_all" -> "marker"
      [] stmt = "marker" -> "scenario_choice"
      [] stmt = "scenario_choice" -> "runner"
      [] stmt = "runner" -> "done"

StatementAfter(stmt) ==
    CASE stmt = "setup_config" -> "discover"
      [] stmt = "discover" -> "parse"
      [] stmt = "parse" -> "load_all"
      [] stmt = "load_all" -> "merge_steps"
      [] stmt = "merge_steps" -> "marker"
      [] stmt = "marker" -> "scenario_choice"
      [] stmt = "scenario_choice" -> "runner"
      [] stmt = "runner" -> "done"

\* the exception is swallowed and main goes on with the next statement
AfterRaise_Swallowed(stmt) == StatementAfter(stmt)

\* main has no try: an exception raised in a statement leaves main
AfterRaise(stmt) == "done"

\* main.py:91-93
SetupConfig ==
    /\ pc = "setup_config"
    /\ config' = setup_config(arguments)
    /\ config_at_setup' = config'
    /\ setups' = setups + 1
    /\ calls' = Append(calls, Call("setup_config", "", 0, 0))
    /\ feature_files' = <<>>
    /\ given_idx' = 1
    /\ pc' = StatementAfter("setup_config")
    /\ UNCHANGED <<started, arguments, marker_given, features, abs_scenario_id, featureid,
                   amount_of_scenarios, scenario_idx, outcome>>

(***************************************************************************)
(* Discovery of the feature files (main.py:93-102).                        *)
(***************************************************************************)
\* a path that does not exist is taken as a file
FeatureFileNotFound_Skipped(path) == FALSE

\* main.py:95
FeatureFileNotFound(path) == ~PathExists(path)

\* a file already in the list is not added again
FilesAppended_Deduplicated(files, path) ==
    IF path \in Range(files) THEN files ELSE Append(files, path)

\* main.py:102, feature_files.append(given_feature)
FilesAppended(files, path) == Append(files, path)

\* main.py:99, feature_files.extend(...)
FilesExtended(files, found) == files \o found

InDiscovery == pc = "discover" /\ given_idx <= Len(config.features)
given_feature == config.features[given_idx]

\* main.py:95-96
DiscoverMissing ==
    /\ InDiscovery
    /\ FeatureFileNotFound(given_feature)
    /\ calls' = Append(calls, Call("exists", given_feature, 0, 0))
    /\ outcome' = Raised("FeatureFileNotFoundError", given_feature, 0, 0)
    /\ pc' = AfterRaise("discover")
    /\ UNCHANGED <<started, arguments, marker_given, config, config_at_setup, setups,
                   given_idx, feature_files, features, abs_scenario_id,
                   featureid, amount_of_scenarios, scenario_idx>>

\* main.py:98-100
DiscoverDirectory ==
    /\ InDiscovery
    /\ ~FeatureFileNotFound(given_feature)
    /\ IsDir(given_feature)
    /\ calls' = Append(calls, Call("exists", given_feature, 0, 0))
    /\ feature_files' = FilesExtended(feature_files, RecursiveGlob(given_feature))
    /\ given_idx' = given_idx + 1
    /\ UNCHANGED <<started, arguments, marker_given, config, config_at_setup, setups, pc,
                   features, abs_scenario_id, featureid, amount_of_scenarios,
                   scenario_idx, outcome>>

\* main.py:102
DiscoverFile ==
    /\ InDiscovery
    /\ ~FeatureFileNotFound(given_feature)
    /\ ~IsDir(given_feature)
    /\ calls' = Append(calls, Call("exists", given_feature, 0, 0))
    /\ feature_files' = FilesAppended(feature_files, given_feature)
    /\ given_idx' = given_idx + 1
    /\ UNCHANGED <<started, arguments, marker_given, config, config_at_setup, setups, pc,
                   features, abs_scenario_id, featureid, amount_of_scenarios,
                   scenario_idx, outcome>>

(***************************************************************************)
(* The parse loop (main.py:104-110).  FeatureParser gives the scenarios it *)
(* finds the identifiers that follow the counter it was constructed with   *)
(* and leaves the last one in current_abs_scenario_id.                     *)
(***************************************************************************)
InitialAbsScenarioId == 0

\* the enumerate index is passed as it is
FeatureIdOf_ZeroBased(idx) == idx

FeatureIdOf(idx) == idx + 1

FeatureParser(featurefile, fid, abs_id, k) ==
    [feature |-> [id |-> fid, path |-> featurefile,
                  scenarios |-> [j \in 1..k |-> abs_id + j]],
     current_abs_scenario_id |-> abs_id + k]

\* the counter is not carried from one file to the next
NextAbsScenarioId_NotThreaded(current, featureparser) == current

\* every file starts again at the initial value
NextAbsScenarioId_Restarted(current, featureparser) == InitialAbsScenarioId

NextAbsScenarioId(current, featureparser) == featureparser.current_abs_scenario_id

\* main.py:104-105, once the loop of line 94 is exhausted
StartParsing ==
    /\ pc = "discover"
    /\ given_idx > Len(config.features)
    /\ features' = <<>>
    /\ abs_scenario_id' = InitialAbsScenarioId
    /\ featureid' = 0
    /\ pc' = StatementAfter("discover")
    /\ UNCHANGED <<started, arguments, marker_given, config, config_at_setup, setups,
                   given_idx, feature_files, amount_of_scenarios, scenario_idx,
                   calls, outcome>>

InParsing == pc = "parse" /\ featureid < Len(feature_files)
featurefile == feature_files[featureid + 1]

\* main.py:107-110
ParseFeature ==
    /\ InParsing
    /\ \E k \in 0..MaxScen :
         LET featureparser == FeatureParser(featurefile, FeatureIdOf(featureid),
                                            abs_scenario_id, k)
         IN /\ features' = Append(features, featureparser.feature)
            /\ abs_scenario_id' = NextAbsScenarioId(abs_scenario_id, featureparser)
            /\ calls' = Append(calls,
                   [Call("parse", featurefile, FeatureIdOf(featureid), abs_scenario_id)
                      EXCEPT !.result = featureparser.current_abs_scenario_id])
    /\ featureid' = featureid + 1
    /\ UNCHANGED <<started, arguments, marker_given, config, config_at_setup, setups, pc,
                   given_idx, feature_files, amount_of_scenarios, scenario_idx,
                   outcome>>

\* main.py:107-108, the parser raising
ParseFails ==
    /\ InParsing
    /\ calls' = Append(calls, Call("parse", featurefile, FeatureIdOf(featureid),
                                   abs_scenario_id))
    /\ outcome' = Raised("ParserError", featurefile, 0, 0)
    /\ pc' = AfterRaise("parse")
    /\ UNCHANGED <<started, arguments, marker_given, config, config_at_setup, setups,
                   given_idx, feature_files, features, abs_scenario_id,
                   featureid, amount_of_scenarios, scenario_idx>>

\* the run goes on without features
NoFeaturesGiven_Ignored(fs) == FALSE

\* main.py:112, not features
NoFeaturesGiven(fs) == fs = <<>>

\* main.py:112-114
NoFeatures ==
    /\ pc = "parse"
    /\ featureid >= Len(feature_files)
    /\ NoFeaturesGiven(features)
    /\ outcome' = Returned(1)
    /\ pc' = "done"
    /\ UNCHANGED <<started, arguments, marker_given, config, config_at_setup, setups,
                   given_idx, feature_files, features, abs_scenario_id,
                   featureid, amount_of_scenarios, scenario_idx, calls>>

\* main.py:112, features were parsed
HaveFeatures ==
    /\ pc = "parse"
    /\ featureid >= Len(feature_files)
    /\ ~NoFeaturesGiven(features)
    /\ pc' = StatementAfter("parse")
    /\ UNCHANGED <<started, arguments, marker_given, config, config_at_setup, setups,
                   given_idx, feature_files, features, abs_scenario_id,
                   featureid, amount_of_scenarios, scenario_idx, calls, outcome>>

(***************************************************************************)
(* Loading the user's code and matching the steps (main.py:116-122).       *)
(***************************************************************************)
\* main.py:117-118
LoadAll ==
    /\ pc = "load_all"
    /\ calls' = Append(calls, Call("load_all", config.basedir.str, 0, 0))
    /\ \/ pc' = StatementAfter("load_all") /\ outcome' = outcome
       \/ pc' = AfterRaise("load_all") /\ outcome' = Raised("LoaderError", "", 0, 0)
    /\ UNCHANGED <<started, arguments, marker_given, config, config_at_setup, setups,
                   given_idx, feature_files, features, abs_scenario_id,
                   featureid, amount_of_scenarios, scenario_idx>>

\* main.py:121-122
MergeSteps ==
    /\ pc = "merge_steps"
    /\ calls' = Append(calls, Call("merge_steps", "", 0, 0))
    /\ \/ pc' = StatementAfter("merge_steps") /\ outcome' = outcome
       \/ pc' = AfterRaise("merge_steps") /\ outcome' = Raised("MatcherError", "", 0, 0)
    /\ UNCHANGED <<started, arguments, marker_given, config, config_at_setup, setups,
                   given_idx, feature_files, features, abs_scenario_id,
                   featureid, amount_of_scenarios, scenario_idx>>

(***************************************************************************)
(* The marker of the run (main.py:124-126).                                *)
(***************************************************************************)
\* every marker is replaced by the time
MarkerIsDefault_Always(marker) == TRUE

\* main.py:125
MarkerIsDefault(marker) == marker = PyStr("time.time()")

\* the clock is read again for the value that is stored
ResolvedMarker_ReadAgain(t) == PyIntVal(t + 1)

\* main.py:126, int(time())
ResolvedMarker(t) == PyIntVal(t)

ResolveMarker ==
    /\ pc = "marker"
    /\ \/ /\ MarkerIsDefault(config.marker)
          /\ \E t \in Times :
               /\ config' = [config EXCEPT !.marker = ResolvedMarker(t)]
               /\ calls' = Append(calls, TimeCall(t))
       \/ /\ ~MarkerIsDefault(config.marker)
          /\ UNCHANGED <<config, calls>>
    /\ pc' = StatementAfter("marker")
    /\ UNCHANGED <<started, arguments, marker_given, config_at_setup, setups,
                   given_idx, feature_files, features, abs_scenario_id,
                   featureid, amount_of_scenarios, scenario_idx, outcome>>

(***************************************************************************)
(* The choice of scenarios (main.py:128-134).                              *)
(***************************************************************************)
\* the features are counted, not their scenarios
AmountOfScenarios_Features(fs) == Len(fs)

\* main.py:129
AmountOfScenarios(fs) == SumLen(fs)

\* the parsed integers are sorted
ParsedScenarios_Sorted(tokens) ==
    LET ints == [i \in DOMAIN tokens |-> IntOf(tokens[i])]
        Count(q, v) == Cardinality({i \in DOMAIN q : q[i] = v})
    IN CHOOSE t \in [DOMAIN ints -> Range(ints)] :
         /\ \A v \in Range(ints) : Count(t, v) = Count(ints, v)
         /\ \A i, j \in DOMAIN t : i < j => t[i] <= t[j]

\* [int(s) for s in world.config.scenarios.split(",")]
ParsedScenarios(tokens) == [i \in DOMAIN tokens |-> IntOf(tokens[i])]

\* scenario 0 is let through
ScenarioNotFound_ZeroAccepted(s, amount) == s < 0 \/ s > amount

\* main.py:133
ScenarioNotFound(s, amount) == s <= 0 \/ s > amount

\* main.py:129-130, no scenarios chosen
NoScenarioChoice ==
    /\ pc = "scenario_choice"
    /\ ~Truthy(config.scenarios)
    /\ amount_of_scenarios' = AmountOfScenarios(features)
    /\ pc' = StatementAfter("scenario_choice")
    /\ UNCHANGED <<started, arguments, marker_given, config, config_at_setup,
                   setups, given_idx, feature_files, features, abs_scenario_id,
                   featureid, scenario_idx, calls, outcome>>

\* the option is cleared when the conversion fails
ScenariosNotAssigned_Cleared(scenarios) == PyNone

\* main.py:131, the right-hand side raises: the assignment does not happen
ScenariosNotAssigned(scenarios) == scenarios

\* main.py:129-131, int() raising on one of the pieces
MalformedScenarioChoice ==
    /\ pc = "scenario_choice"
    /\ Truthy(config.scenarios)
    /\ \E i \in DOMAIN config.scenarios.tokens :
         ~IsIntLiteral(config.scenarios.tokens[i])
    /\ amount_of_scenarios' = AmountOfScenarios(features)
    /\ config' = [config EXCEPT !.scenarios = ScenariosNotAssigned(config.scenarios)]
    /\ outcome' = Raised("ValueError", "", 0, 0)
    /\ pc' = AfterRaise("scenario_choice")
    /\ UNCHANGED <<started, arguments, marker_given, config_at_setup,
                   setups, given_idx, feature_files, features, abs_scenario_id,
                   featureid, scenario_idx, calls>>

\* main.py:129-131
ScenarioChoice ==
    /\ pc = "scenario_choice"
    /\ Truthy(config.scenarios)
    /\ \A i \in DOMAIN config.scenarios.tokens :
         IsIntLiteral(config.scenarios.tokens[i])
    /\ amount_of_scenarios' = AmountOfScenarios(features)
    /\ config' = [config EXCEPT
                    !.scenarios = PyList(ParsedScenarios(config.scenarios.tokens))]
    /\ scenario_idx' = 1
    /\ pc' = "check_scenarios"
    /\ UNCHANGED <<started, arguments, marker_given, config_at_setup, setups,
                   given_idx, feature_files, features, abs_scenario_id,
                   featureid, calls, outcome>>

InScenarioCheck == pc = "check_scenarios" /\ scenario_idx <= Len(config.scenarios.ints)

\* the error is given the amount first
ScenarioNotFoundError_AmountFirst(s, amount) ==
    Raised("ScenarioNotFoundError", "", amount, s)

\* main.py:134, ScenarioNotFoundError(s, amount_of_scenarios)
ScenarioNotFoundError(s, amount) == Raised("ScenarioNotFoundError", "", s, amount)

\* main.py:132-134
ScenarioMissing ==
    /\ InScenarioCheck
    /\ ScenarioNotFound(config.scenarios.ints[scenario_idx], amount_of_scenarios)
    /\ outcome' = ScenarioNotFoundError(config.scenarios.ints[scenario_idx],
                                        amount_of_scenarios)
    /\ pc' = AfterRaise("scenario_choice")
    /\ UNCHANGED <<started, arguments, marker_given, config, config_at_setup,
                   setups, given_idx, feature_files, features, abs_scenario_id,
                   featureid, amount_of_scenarios, scenario_idx, calls>>

\* main.py:132-133
ScenarioFound ==
    /\ InScenarioCheck
    /\ ~ScenarioNotFound(config.scenarios.ints[scenario_idx], amount_of_scenarios)
    /\ scenario_idx' = scenario_idx + 1
    /\ UNCHANGED <<started, arguments, marker_given, config, config_at_setup,
                   setups, pc, given_idx, feature_files, features,
                   abs_scenario_id, featureid, amount_of_scenarios, calls,
                   outcome>>

\* the loop of line 132 is exhausted
ScenariosChecked ==
    /\ pc = "check_scenarios"
    /\ scenario_idx > Len(config.scenarios.ints)
    /\ pc' = StatementAfter("scenario_choice")
    /\ UNCHANGED <<started, arguments, marker_given, config, config_at_setup,
                   setups, given_idx, feature_files, features, abs_scenario_id,
                   featureid, amount_of_scenarios, scenario_idx, calls, outcome>>

(***************************************************************************)
(* The run (main.py:136-137).                                              *)
(***************************************************************************)
RunnerStart ==
    /\ pc = "runner"
    /\ calls' = calls \o <<Call("HookRegistry", "", 0, 0), Call("start", "", 0, 0)>>
    /\ started' = Append(started, [features |-> features,
                                   marker |-> config.marker,
                                   early_exit |-> config.early_exit])
    /\ \/ outcome' = Returned(0)
       \/ outcome' = Raised("RunnerError", "", 0, 0)
    /\ pc' = StatementAfter("runner")
    /\ UNCHANGED <<arguments, marker_given, config, config_at_setup, setups,
                   given_idx, feature_files, features, abs_scenario_id,
                   featureid, amount_of_scenarios, scenario_idx>>

Next ==
    \/ SetupConfig
    \/ DiscoverMissing
    \/ DiscoverDirectory
    \/ DiscoverFile
    \/ StartParsing
    \/ ParseFeature
    \/ ParseFails
    \/ NoFeatures
    \/ HaveFeatures
    \/ LoadAll
    \/ MergeSteps
    \/ ResolveMarker
    \/ NoScenarioChoice
    \/ MalformedScenarioChoice
    \/ ScenarioChoice
    \/ ScenarioMissing
    \/ ScenarioFound
    \/ ScenariosChecked
    \/ RunnerStart

Spec == Init /\ [][Next]_vars

SpecScenarios == InitScenarios /\ [][Next]_vars

SpecUnknownFlags == InitUnknownFlags /\ [][Next]_vars

\* one path; no filter, the empty one, a malformed and an integer one;
\* with -m or without
InitTerminates == InitWith(PathLists(1), Filters({"", "x", "1"}, 1), BOOLEAN)

\* main is one thread of straight-line code and every collaborator returns
\* or raises: a statement that can be executed is executed
SpecTerminates == InitTerminates /\ [][Next]_vars /\ WF_vars(Next)

(***************************************************************************)
(* What the properties below read off the state.                           *)
(***************************************************************************)
IsParseCall(c) == c.op = "parse"
IsExistsCall(c) == c.op = "exists"
ParseCalls == SelectSeq(calls, IsParseCall)
ExistsCalls == SelectSeq(calls, IsExistsCall)

ConfigIsSet == setups >= 1
Ended == pc = "done"

\* the scenarios of the first n features, counted
ScenariosBefore(n) == SumLen(SubSeq(features, 1, n))

\* every (feature, scenario) position of the parsed features
ScenarioPositions ==
    UNION {{<<i, j>> : j \in DOMAIN features[i].scenarios} : i \in DOMAIN features}

AssignedIds == {features[q[1]].scenarios[q[2]] : q \in ScenarioPositions}

MissingArgs == {i \in DOMAIN config.features : ~PathExists(config.features[i])}
FirstMissing == CHOOSE i \in MissingArgs : \A j \in MissingArgs : i <= j

CollaboratorOps == {"parse", "load_all", "merge_steps", "time", "HookRegistry", "start"}
CalledAny(ops) == {i \in DOMAIN calls : calls[i].op \in ops}

C2_FeatureIdsInDiscoveryOrder ==
    /\ LET parsed == ParseCalls
       IN \A p \in DOMAIN parsed :
            /\ p <= Len(feature_files)
            /\ parsed[p].featureid = p
            /\ parsed[p].path = feature_files[p]
    /\ Len(features) <= Len(feature_files)
    /\ \A i \in DOMAIN features :
         features[i].id = i /\ features[i].path = feature_files[i]
    /\ started # <<>> =>
         /\ started[1].features = features
         /\ Len(features) = Len(feature_files)

C2_Witness ==
    /\ started # <<>>
    /\ Len(started[1].features) = 3
    /\ started[1].features[3].id = 3
    /\ started[1].features[3].path = "features/sub/b.feature"

(***************************************************************************)
(* C3: when a path argument does not exist, main raises                    *)
(* FeatureFileNotFoundError for the first such argument, looks at no       *)
(* argument after it, and calls neither the parser nor the loader, the     *)
(* matcher or the runner.                                                  *)
(***************************************************************************)
C3_MissingPathAbortsDiscovery ==
    (ConfigIsSet /\ MissingArgs # {}) =>
        /\ Len(ExistsCalls) <= FirstMissing
        /\ \A n \in DOMAIN ExistsCalls : ExistsCalls[n].path = config.features[n]
        /\ CalledAny(CollaboratorOps) = {}
        /\ started = <<>>
        /\ Ended => outcome = Raised("FeatureFileNotFoundError",
                                     config.features[FirstMissing], 0, 0)

C3_Witness ==
    /\ Ended
    /\ ConfigIsSet
    /\ config.features = <<"features", "missing.feature">>
    /\ feature_files = <<"features/a.feature", "features/sub/b.feature">>
    /\ outcome.exc = "FeatureFileNotFoundError"

(***************************************************************************)
(* C4: when every path argument exists and no file was collected, main     *)
(* returns 1, raises nothing, and calls neither the parser nor the loader, *)
(* the matcher, the clock or the runner; the marker and the scenarios of   *)
(* the configuration are left as they were.                                *)
(***************************************************************************)
C4_NoFeatureFilesReturnsOne ==
    (ConfigIsSet /\ MissingArgs = {} /\ pc # "discover" /\ feature_files = <<>>) =>
        /\ pc \in {"parse", "done"}
        /\ CalledAny(CollaboratorOps) = {}
        /\ started = <<>>
        /\ config = config_at_setup
        /\ outcome.kind # "raise"
        /\ Ended => outcome = Returned(1)

C4_Witness ==
    /\ Ended
    /\ ConfigIsSet
    /\ config.features = <<"empty", "empty">>
    /\ outcome = Returned(1)

(***************************************************************************)
(* What the properties about the marker and the scenario choice read.      *)
(***************************************************************************)
RawMarker == arguments["--marker"]
RawScenarios == arguments["--scenarios"]
RawTokens == RawScenarios.tokens
FilterGiven == RawScenarios.type = "str" /\ RawTokens # <<"">>
TotalScenarios == SumLen(features)

\* the statement of line 129 has been reached by a run whose earlier stages
\* all succeeded
ReachedScenarioChoice ==
    \/ pc \in {"check_scenarios", "runner"}
    \/ /\ Ended
       /\ \/ started # <<>>
          \/ outcome.exc \in {"ValueError", "ScenarioNotFoundError"}

AllWellFormed == \A i \in DOMAIN RawTokens : IsIntLiteral(RawTokens[i])

HasOutOfRangeEntry ==
    /\ FilterGiven
    /\ \E i \in DOMAIN RawTokens :
         /\ IsIntLiteral(RawTokens[i])
         /\ (IntOf(RawTokens[i]) <= 0 \/ IntOf(RawTokens[i]) > TotalScenarios)

AllEntriesInRange ==
    /\ FilterGiven
    /\ \A i \in DOMAIN RawTokens :
         /\ IsIntLiteral(RawTokens[i])
         /\ 1 <= IntOf(RawTokens[i])
         /\ IntOf(RawTokens[i]) <= TotalScenarios

EngineUntouched ==
    /\ started = <<>>
    /\ CalledAny({"HookRegistry", "start"}) = {}

TimeRead == calls[CHOOSE i \in Called("time") : TRUE].result

(***************************************************************************)
(* C5 as stated: a run that reaches the scenario choice with a filter      *)
(* holding an entry that is 0, negative or above the number of scenarios   *)
(* ends with ScenarioNotFoundError and never touches the hook registry or  *)
(* the runner.                                                             *)
(***************************************************************************)
C5_AbortsWithScenarioNotFound ==
    (Ended /\ ReachedScenarioChoice /\ HasOutOfRangeEntry) =>
        /\ outcome.exc = "ScenarioNotFoundError"
        /\ EngineUntouched

(***************************************************************************)
(* C5 as amended: such a run never touches the hook registry or the        *)
(* runner, and ends with ScenarioNotFoundError when every piece of the     *)
(* filter is an integer, with ValueError when some piece is not.           *)
(***************************************************************************)
C5_OutOfRangeNeverRuns ==
    (ReachedScenarioChoice /\ HasOutOfRangeEntry) =>
        /\ EngineUntouched
        /\ pc # "runner"
        /\ Ended =>
             /\ outcome.kind = "raise"
             /\ outcome.exc = IF AllWellFormed THEN "ScenarioNotFoundError"
                                               ELSE "ValueError"

C5_Witness ==
    /\ Ended
    /\ RawTokens = <<"1", "0">>
    /\ TotalScenarios >= 1
    /\ outcome.exc = "ScenarioNotFoundError"
    /\ started = <<>>

(***************************************************************************)
(* C6: the stages of a run happen in the order setup_config, discovery of  *)
(* every path argument, parsing of every discovered file, load_all,        *)
(* merge_steps, marker, scenario choice, Runner.start: what a stage leaves *)
(* behind is only there once every stage before it is complete, and no     *)
(* call of an earlier stage follows a call of a later one.                 *)
(***************************************************************************)
StageOf(op) ==
    CASE op = "setup_config" -> 1
      [] op = "exists" -> 2
      [] op = "parse" -> 3
      [] op = "load_all" -> 4
      [] op = "merge_steps" -> 5
      [] op = "time" -> 6
      [] op = "HookRegistry" -> 8
      [] op = "start" -> 8

DiscoveryComplete == ConfigIsSet /\ Len(ExistsCalls) = Len(config.features)
ParsingComplete ==
    /\ DiscoveryComplete
    /\ Len(ParseCalls) = Len(feature_files)
    /\ Len(features) = Len(feature_files)
MarkerTouched == config.marker # config_at_setup.marker \/ Called("time") # {}
MarkerComplete == config.marker # PyStr("time.time()")
ScenarioChoiceBegun == config.scenarios.type = "list"
ScenarioChoiceComplete ==
    FilterGiven =>
        /\ config.scenarios.type = "list"
        /\ \A i \in DOMAIN config.scenarios.ints :
             /\ 1 <= config.scenarios.ints[i]
             /\ config.scenarios.ints[i] <= TotalScenarios

C6_StagesInOrder ==
    /\ \A i \in 1..Len(calls) - 1 :
         StageOf(calls[i].op) <= StageOf(calls[i + 1].op)
    /\ calls # <<>> => calls[1].op = "setup_config" /\ ConfigIsSet
    /\ Called("parse") # {} => DiscoveryComplete
    /\ Called("load_all") # {} => ParsingComplete
    /\ Called("merge_steps") # {} => Called("load_all") # {}
    /\ ConfigIsSet =>
         /\ MarkerTouched => Called("merge_steps") # {}
         /\ ScenarioChoiceBegun => Called("merge_steps") # {} /\ MarkerComplete
    /\ CalledAny({"HookRegistry", "start"}) # {} \/ started # <<>> =>
         /\ Called("merge_steps") # {}
         /\ MarkerComplete
         /\ ScenarioChoiceComplete

C6_Witness ==
    /\ started # <<>>
    /\ Len(features) = 3
    /\ Called("time") # {}
    /\ config.scenarios = PyList(<<1>>)

(***************************************************************************)
(* C7 as stated: the runner gets the time read at resolution when no       *)
(* marker was given, and the given marker unchanged, whatever it is, when  *)
(* one was given.                                                          *)
(***************************************************************************)
C7_ExplicitMarkerUnchanged ==
    started # <<>> =>
        IF marker_given
        THEN started[1].marker = RawMarker
        ELSE Called("time") # {} /\ started[1].marker = PyIntVal(TimeRead)

(***************************************************************************)
(* C7, what main does: the runner gets the given marker unchanged when    *)
(* one was given and it is not the string "time.time()"; it gets the time  *)
(* read at resolution, an integer, when none was given or "time.time()"    *)
(* was given.                                                              *)
(***************************************************************************)
C7_MarkerResolution ==
    started # <<>> =>
        IF marker_given /\ RawMarker # PyStr("time.time()")
        THEN started[1].marker = RawMarker /\ Called("time") = {}
        ELSE /\ Called("time") # {}
             /\ started[1].marker = PyIntVal(TimeRead)
             /\ TimeRead \in Times

C7_Witness ==
    /\ started # <<>>
    /\ marker_given
    /\ RawMarker = PyStr("run-42")
    /\ started[1].marker = PyStr("run-42")

(***************************************************************************)
(* C8: the clock is read at most once, after the last file was parsed and  *)
(* before the runner is made; the runner is started at most once and gets  *)
(* the marker that the one resolution left in the configuration.           *)
(***************************************************************************)
C8_MarkerResolvedOnce ==
    /\ Cardinality(Called("time")) <= 1
    /\ \A t \in Called("time") :
         /\ \A p \in Called("parse") : p < t
         /\ ParsingComplete
         /\ \A r \in CalledAny({"HookRegistry", "start"}) : t < r
    /\ started # <<>> =>
         /\ Len(started) = 1
         /\ started[1].marker = config.marker
         /\ IF config_at_setup.marker = PyStr("time.time()")
            THEN /\ Cardinality(Called("time")) = 1
                 /\ started[1].marker = PyIntVal(TimeRead)
            ELSE /\ Called("time") = {}
                 /\ started[1].marker = config_at_setup.marker

C8_Witness ==
    /\ started # <<>>
    /\ ~marker_given
    /\ Len(features) = 2
    /\ started[1].marker = PyIntVal(1700000001)

(***************************************************************************)
(* C9 as stated: the configuration is built once and no field of it ever   *)
(* differs from what setup_config left.                                    *)
(***************************************************************************)
C9_ConfigNeverChanges ==
    /\ setups <= 1
    /\ ConfigIsSet => config = config_at_setup

(***************************************************************************)
(* C9 as amended: the configuration is built once; afterwards only marker  *)
(* (the default string replaced by the integer time) and scenarios (a      *)
(* given filter replaced by the list of its integers) ever differ from     *)
(* what setup_config left.                                                 *)
(***************************************************************************)
C9_OnlyMarkerAndScenariosChange ==
    /\ setups <= 1
    /\ ConfigIsSet =>
         /\ DOMAIN config = DOMAIN config_at_setup
         /\ \A k \in DOMAIN config \ {"marker", "scenarios"} :
              config[k] = config_at_setup[k]
         /\ \/ config.marker = config_at_setup.marker
            \/ /\ config_at_setup.marker = PyStr("time.time()")
               /\ config.marker.type = "int"
               /\ config.marker.int \in Times
         /\ \/ config.scenarios = config_at_setup.scenarios
            \/ /\ FilterGiven
               /\ AllWellFormed
               /\ config.scenarios.type = "list"
               /\ Len(config.scenarios.ints) = Len(RawTokens)
               /\ \A i \in DOMAIN RawTokens :
                    config.scenarios.ints[i] = IntOf(RawTokens[i])

C9_Witness ==
    /\ Ended
    /\ started # <<>>
    /\ config.marker.type = "int"
    /\ config_at_setup.marker = PyStr("time.time()")
    /\ config.scenarios = PyList(<<1>>)
    /\ config_at_setup.scenarios = PyCsv(<<"1">>)

(***************************************************************************)
(* C10: a filter whose entries all lie in 1..total passes the check in     *)
(* whatever order they are given, and the configuration then holds the     *)
(* integers of the filter in the order given, duplicates kept.             *)
(***************************************************************************)
C10_ValidFilterKeptInOrder ==
    (pc \in {"runner", "done"} /\ ReachedScenarioChoice /\ AllEntriesInRange) =>
        /\ outcome.exc \notin {"ValueError", "ScenarioNotFoundError"}
        /\ config.scenarios.type = "list"
        /\ Len(config.scenarios.ints) = Len(RawTokens)
        /\ \A i \in DOMAIN RawTokens : config.scenarios.ints[i] = IntOf(RawTokens[i])
        /\ Ended => started # <<>>

C10_Witness ==
    /\ started # <<>>
    /\ RawTokens = <<"3", "1">>
    /\ config.scenarios.ints = <<3, 1>>

(***************************************************************************)
(* C11: the discovered list is, argument after argument, what each         *)
(* argument contributes: a directory the "*.feature" files below it in the *)
(* order of the walk, a plain file itself whatever its name; a path that   *)
(* is reached twice is in the list twice and is parsed twice.              *)
(***************************************************************************)
Contribution(path) ==
    IF IsDir(path) THEN SelectSeq(Walk(path), MatchesFeaturePattern) ELSE <<path>>

RECURSIVE Contributions(_)
Contributions(paths) ==
    IF paths = <<>> THEN <<>>
    ELSE Contributions(SubSeq(paths, 1, Len(paths) - 1)) \o Contribution(paths[Len(paths)])

C11_DiscoveredListIsConcatenation ==
    ConfigIsSet =>
        /\ feature_files = Contributions(SubSeq(config.features, 1, given_idx - 1))
        /\ (pc \notin {"discover", "parse"} /\ MissingArgs = {} /\ outcome.exc # "ParserError") =>
              LET parsed == ParseCalls
              IN /\ feature_files = Contributions(config.features)
                 /\ Len(parsed) = Len(feature_files)
                 /\ \A n \in DOMAIN parsed : parsed[n].path = feature_files[n]

C11_Witness ==
    /\ started # <<>>
    /\ config.features = <<"features", "features/a.feature">>
    /\ feature_files = <<"features/a.feature", "features/sub/b.feature",
                         "features/a.feature">>
    /\ Len(ParseCalls) = 3
    /\ ParseCalls[1].path = ParseCalls[3].path

ParseLoopLeft ==
    /\ pc \notin {"setup_config", "discover"}
    /\ pc = "parse" => featureid >= Len(feature_files)
    /\ outcome.exc \notin {"FeatureFileNotFoundError", "ParserError"}

OncePerFileThreaded ==
    LET parsed == ParseCalls
    IN /\ Len(parsed) <= Len(feature_files)
       /\ \A n \in DOMAIN parsed :
            /\ parsed[n].path = feature_files[n]
            /\ n > 1 => parsed[n].abs_scenario_id = parsed[n - 1].result
       /\ ParseLoopLeft => Len(parsed) = Len(feature_files)

(***************************************************************************)
(* C13 as stated: the parser is invoked exactly once per discovered file,  *)
(* in discovery order, with the counter the parser of the file before      *)
(* returned, and the counter passed for the first file is 1.               *)
(***************************************************************************)
C13_FirstCounterIsOne ==
    /\ OncePerFileThreaded
    /\ ParseCalls # <<>> => ParseCalls[1].abs_scenario_id = 1

(***************************************************************************)
(* C13 as amended: the parser is invoked exactly once per discovered file, *)
(* in discovery order, with the counter the parser of the file before      *)
(* returned, and the counter passed for the first file is 0.               *)
(***************************************************************************)
C13_FirstCounterIsZero ==
    /\ OncePerFileThreaded
    /\ ParseCalls # <<>> => ParseCalls[1].abs_scenario_id = 0

C13_Witness ==
    /\ started # <<>>
    /\ Len(ParseCalls) = 3
    /\ ParseCalls[1].abs_scenario_id = 0
    /\ ParseCalls[1].result = 2
    /\ ParseCalls[2].abs_scenario_id = 2
    /\ ParseCalls[2].result = 3
    /\ ParseCalls[3].abs_scenario_id = 3

(***************************************************************************)
(* C14: a failure of discovery, of a parser, of the Loader, of the Matcher *)
(* or of the check of the chosen scenarios ends the run where it is raised *)
(* (the failing call is the last one made); no collaborator is called more *)
(* than once in a run, the parser no more than once per discovered file;   *)
(* Runner.start is called only when every stage before it went through.    *)
(***************************************************************************)
LastCall == calls[Len(calls)]

FailedAt(exc) ==
    CASE exc = "FeatureFileNotFoundError" -> {"exists"}
      [] exc = "ParserError" -> {"parse"}
      [] exc = "LoaderError" -> {"load_all"}
      [] exc = "MatcherError" -> {"merge_steps"}
      [] exc \in {"ValueError", "ScenarioNotFoundError"} -> {"merge_steps", "time"}
      [] exc = "RunnerError" -> {"start"}

C14_FailureIsTerminal ==
    /\ outcome.kind = "raise" =>
          /\ Ended
          /\ LastCall.op \in FailedAt(outcome.exc)
          /\ outcome.exc # "RunnerError" => started = <<>>
    /\ \A op \in CollaboratorOps \ {"parse"} : Cardinality(Called(op)) <= 1
    /\ Len(ParseCalls) <= Len(feature_files)
    /\ \A n \in DOMAIN ParseCalls : ParseCalls[n].path = feature_files[n]
    /\ Len(started) <= 1
    /\ started # <<>> =>
          /\ ParseLoopLeft
          /\ Len(ParseCalls) = Len(feature_files)
          /\ Cardinality(Called("load_all")) = 1
          /\ Cardinality(Called("merge_steps")) = 1
          /\ config.scenarios.type # "str"
          /\ outcome.exc \in {"", "RunnerError"}

C14_Witness ==
    /\ Ended
    /\ outcome.exc = "MatcherError"
    /\ Len(ParseCalls) = 2
    /\ Cardinality(Called("load_all")) = 1
    /\ LastCall.op = "merge_steps"
    /\ Called("time") = {}
    /\ started = <<>>

(***************************************************************************)
(* C15: when every piece of the filter is an integer and some of them are  *)
(* out of range, the run that reaches the check ends with                  *)
(* ScenarioNotFoundError carrying the first out-of-range entry in the      *)
(* order of the filter and the total number of scenarios; the loop stops   *)
(* at that entry, those after it are not looked at.                        *)
(***************************************************************************)
OutOfRangeAt(i) ==
    IntOf(RawTokens[i]) <= 0 \/ IntOf(RawTokens[i]) > TotalScenarios

FirstOutOfRange ==
    CHOOSE i \in DOMAIN RawTokens :
        /\ OutOfRangeAt(i)
        /\ \A j \in 1..(i - 1) : ~OutOfRangeAt(j)

C15_FirstOutOfRangeReported ==
    (Ended /\ ReachedScenarioChoice /\ AllWellFormed /\ HasOutOfRangeEntry) =>
        /\ outcome.exc = "ScenarioNotFoundError"
        /\ outcome.s = IntOf(RawTokens[FirstOutOfRange])
        /\ outcome.amount = TotalScenarios
        /\ scenario_idx = FirstOutOfRange

C15_Witness ==
    /\ Ended
    /\ RawTokens = <<"3", "0">>
    /\ TotalScenarios = 2
    /\ outcome.exc = "ScenarioNotFoundError"
    /\ outcome.s = 3
    /\ outcome.amount = 2
    /\ scenario_idx = 1

(***************************************************************************)
(* C16: every piece of the filter is converted before the first bounds     *)
(* check.  A run that reaches the scenario choice with a filter holding a  *)
(* piece that is no integer ends with ValueError, never with               *)
(* ScenarioNotFoundError, also when an out-of-range entry stands before    *)
(* that piece, and world.config.scenarios is still the string it was; the  *)
(* bounds loop runs only over a list that holds every piece converted.     *)
(***************************************************************************)
C16_MalformedPieceWinsOverBounds ==
    /\ (Ended /\ ReachedScenarioChoice /\ FilterGiven /\ ~AllWellFormed) =>
          /\ outcome.exc = "ValueError"
          /\ config.scenarios = RawScenarios
          /\ scenario_idx = 0
          /\ EngineUntouched
    /\ (pc = "check_scenarios" \/ outcome.exc = "ScenarioNotFoundError") =>
          /\ AllWellFormed
          /\ config.scenarios.type = "list"
          /\ Len(config.scenarios.ints) = Len(RawTokens)

C16_Witness ==
    /\ Ended
    /\ RawTokens = <<"0", "x">>
    /\ TotalScenarios = 1
    /\ outcome.exc = "ValueError"
    /\ config.scenarios = RawScenarios
    /\ config.scenarios.type = "str"

EndsNoFeatures == outcome = Returned(1) /\ EngineUntouched

EndsFatal ==
    /\ outcome.kind = "raise"
    /\ outcome.exc # "RunnerError"
    /\ EngineUntouched

EndsInRunner ==
    /\ Len(started) = 1
    /\ Cardinality(Called("start")) = 1
    /\ started[1].features = features
    /\ Len(features) = Len(feature_files)
    /\ \A n \in DOMAIN features : features[n].path = feature_files[n]
    /\ started[1].marker = config.marker
    /\ IF RawMarker = PyStr(DefaultMarker)
       THEN Called("time") # {} /\ started[1].marker = PyIntVal(TimeRead)
       ELSE started[1].marker = RawMarker
    /\ outcome \in {Returned(0), Raised("RunnerError", "", 0, 0)}

ExactlyOneEnd ==
    /\ EndsNoFeatures \/ EndsFatal \/ EndsInRunner
    /\ ~(EndsNoFeatures /\ EndsFatal)
    /\ ~(EndsNoFeatures /\ EndsInRunner)
    /\ ~(EndsFatal /\ EndsInRunner)

NoBoundsCheck == scenario_idx = 0 /\ config.scenarios = RawScenarios

FilesDiscovered == DiscoveryComplete /\ feature_files # <<>>

====
